---- MODULE Spec2Model ----
(***************************************************************************)
(* Batch document-processing pipeline of web-PaddleOCR:                    *)
(*   task_database.py   the persistent store (batch_tasks, batch_files)    *)
(*   batch_processor.py the stage workers and the task controller          *)
(*                                                                         *)
(* Threads.  A worker thread runs process_task_stage1_worker or            *)
(* process_task_stage2_worker; a request thread runs one controller call   *)
(* at a time.  Every action below is one access to shared state (a store   *)
(* statement or a registry read/write); threads interleave between them.   *)
(* app.py calls the controller from `async def` handlers, i.e. from the    *)
(* single event-loop thread (Spec); SpecConc lets two request threads      *)
(* call the controller at the same time.                                   *)
(***************************************************************************)
EXTENDS Integers, Sequences, FiniteSets, TLC

\* ---------------------------------------------------------------- bounds
NumFiles == 2        \* files scanned into the task
MaxEvents == 3       \* controller calls and process restarts in one behaviour

\* ------------------------------------------------------ program constants
batch_size == 5      \* batch_processor.py: batch_size = 5

\* ------------------------------------------------------------- universes
TaskIds == {"t1"}                    \* tasks with a row in batch_tasks
MissingTask == "t0"                  \* a task id with no row
Workers == 1..MaxEvents              \* worker threads (at most one per call)
EventLoop == {"loop"}                \* app.py: the event-loop thread
RequestThreads == {"loop", "req2"}   \* two threads calling the controller
NULL == "NULL"                       \* SQL NULL / Python None (text columns)
None == << >>                        \* Python None for Optional[int]
Some(x) == <<x>>

\* what the collaborators can answer for one file
Stage1Results == {[matched_page_number |-> "page2",
                   matched_page_base64 |-> "img2",
                   matching_score      |-> "0.40"]}
Stage1Errors == {"clip_error"}
Stage2Results == {[ocr_result |-> "visual_info", extracted_keywords |-> "chat_res"]}
Stage2Errors == {"ocr_error"}
StoreErrors == {"database is locked"}

VARIABLES
    tasks,             \* batch_tasks: task_id -> row
    files,             \* batch_files: sequence of rows, id = position
    processing_tasks,  \* batch_processor.processing_tasks: task_id -> thread
    task_control,      \* batch_processor.task_control: task_id -> {pause, stop}
    workers,           \* worker threads: position and locals of each
    callers,           \* request threads: position and locals of each
    events,            \* controller calls and process restarts so far
    hist,              \* history: whom a signal was sent to, what a resumption found
    clip               \* clip_service: the /match-page request being served

vars == <<tasks, files, processing_tasks, task_control, workers, callers, events, hist, clip>>

\* clip_service: no request is being served
NoRequest == [pc |-> "idle"]

\* ------------------------------------------------------------ dict helpers
DictDel(d, k) == [x \in (DOMAIN d) \ {k} |-> d[x]]
DictSet(d, k, v) == [x \in (DOMAIN d) \cup {k} |-> IF x = k THEN v ELSE d[x]]
Min(a, b) == IF a < b THEN a ELSE b

\* =========================================================================
\* task_database.py
\* =========================================================================

\* CREATE TABLE batch_tasks / create_batch_task: a new row
NewTaskRow(total) ==
    [status |-> "created", stage |-> 0, progress |-> 0, total_files |-> total,
     processed_files |-> 0, failed_files |-> 0, error_message |-> NULL,
     is_deleted |-> 0]

\* CREATE TABLE batch_files / add_files_to_task: a new row (column defaults)
NewFileRow(t) ==
    [task_id |-> t, status |-> "pending",
     stage1_status |-> "pending", stage2_status |-> "pending",
     matched_page_number |-> NULL, matched_page_base64 |-> NULL,
     matching_score |-> NULL, ocr_result |-> NULL,
     extracted_keywords |-> NULL, error_message |-> NULL]

\* update_task_status(task_id, status, stage=None, error_message=None)
update_task_status(t, status, stage, error_message) ==
    IF t \notin DOMAIN tasks THEN tasks
    ELSE [tasks EXCEPT ![t] =
            [@ EXCEPT !.status = status,
                      !.stage = IF stage # None THEN stage[1] ELSE @,
                      !.error_message =
                          IF error_message # NULL THEN error_message ELSE @]]

\* SELECT ... WHERE task_id = ? AND <condition> ORDER BY id: the ids, among ids,
\* of the rows of task t, in id order
FileIdsWhere(t, ids) ==
    SelectSeq([i \in 1..Len(files) |-> i],
              LAMBDA i: files[i].task_id = t /\ i \in ids)

FileIds == 1..Len(files)

Limit(s, limit) == SubSeq(s, 1, Min(limit, Len(s)))

\* SELECT COUNT(*) ... WHERE task_id = ? AND <condition>
CountWhere(t, ids) == Len(FileIdsWhere(t, ids))

\* update_task_progress(task_id)
update_task_progress(t) ==
    LET total     == CountWhere(t, FileIds)
        completed == CountWhere(t, {i \in FileIds : files[i].stage2_status = "completed"})
        failed    == CountWhere(t, {i \in FileIds : files[i].status = "failed"})
        progress  == IF total > 0 THEN (completed * 100) \div total ELSE 0
    IN IF t \notin DOMAIN tasks THEN tasks
       ELSE [tasks EXCEPT ![t] = [@ EXCEPT !.progress = progress,
                                           !.processed_files = completed,
                                           !.failed_files = failed]]

\* update_file_stage1_result(file_id, page, base64, score, status, error_message)
update_file_stage1_result(file_id, page, b64, score, status, error_message) ==
    [files EXCEPT ![file_id] =
        [@ EXCEPT !.stage1_status = status,
                  !.matched_page_number = page,
                  !.matched_page_base64 = b64,
                  !.matching_score = score,
                  !.error_message = error_message]]

\* a result write that leaves the stage status of the row as it is
update_file_stage2_result_keeping_status(file_id, ocr_result, extracted_keywords, status, error_message) ==
    [files EXCEPT ![file_id] =
        [@ EXCEPT !.ocr_result = ocr_result,
                  !.extracted_keywords = extracted_keywords,
                  !.error_message = error_message]]

\* update_file_stage2_result(file_id, ocr_result, extracted_keywords, status, error_message)
update_file_stage2_result(file_id, ocr_result, extracted_keywords, status, error_message) ==
    [files EXCEPT ![file_id] =
        [@ EXCEPT !.stage2_status = status,
                  !.ocr_result = ocr_result,
                  !.extracted_keywords = extracted_keywords,
                  !.status = status,
                  !.error_message = error_message]]

\* a lookup that forgets the is_deleted filter
get_task_by_id_any(t) ==
    IF t \in DOMAIN tasks THEN Some(tasks[t]) ELSE None

\* get_task_by_id(task_id): <<row>> or None
get_task_by_id(t) ==
    IF t \in DOMAIN tasks /\ tasks[t].is_deleted = 0 THEN Some(tasks[t]) ELSE None

\* a stage-1 query that forgets the stage1_status filter
get_pending_files_for_stage1_unfiltered(t, limit) ==
    Limit(FileIdsWhere(t, FileIds), limit)

\* get_pending_files_for_stage1(task_id, limit): the ids of the rows returned
get_pending_files_for_stage1(t, limit) ==
    Limit(FileIdsWhere(t, {i \in FileIds : files[i].stage1_status = "pending"}), limit)

\* a stage-2 query that forgets the stage2_status filter
get_pending_files_for_stage2_any(t, limit) ==
    Limit(FileIdsWhere(t, {i \in FileIds : files[i].stage1_status = "completed"}), limit)

\* get_pending_files_for_stage2(task_id, limit): the ids of the rows returned
get_pending_files_for_stage2(t, limit) ==
    Limit(FileIdsWhere(t, {i \in FileIds : files[i].stage1_status = "completed"
                                            /\ files[i].stage2_status = "pending"}), limit)

get_pending_files(t, stage, limit) ==
    IF stage = 1 THEN get_pending_files_for_stage1(t, limit)
    ELSE get_pending_files_for_stage2(t, limit)

\* SUM(CASE WHEN <condition> THEN 1 ELSE 0 END) over the rows of task t: NULL
\* (None) when the task has no row
SumWhere(t, ids) ==
    IF CountWhere(t, FileIds) = 0 THEN None ELSE Some(CountWhere(t, ids))

\* get_task_statistics(task_id): the counters resume_task_from_failure reads
get_task_statistics(t) ==
    [stage1_pending |-> SumWhere(t, {i \in FileIds : files[i].stage1_status = "pending"}),
     stage2_pending |-> SumWhere(t, {i \in FileIds : files[i].stage2_status = "pending"})]

\* a reset that leaves the error message of the last failure in place
reset_task_status_keeping_error(t, stage) ==
    IF t \notin DOMAIN tasks THEN tasks
    ELSE [tasks EXCEPT ![t] = [@ EXCEPT !.status = "running", !.stage = stage]]

\* reset_task_status_for_resume(task_id, stage)
reset_task_status_for_resume(t, stage) ==
    IF t \notin DOMAIN tasks THEN tasks
    ELSE [tasks EXCEPT ![t] = [@ EXCEPT !.status = "running",
                                        !.stage = stage,
                                        !.error_message = NULL]]

\* =========================================================================
\* batch_processor.py: the stage workers
\* =========================================================================

FreeWorker == [pc |-> "free", task_id |-> MissingTask, stage |-> 0,
               pending_files |-> << >>, idx |-> 0, error |-> NULL]

\* control = task_control.get(task_id, {}); control.get('stop'/'pause')
ControlGet(t, flag) ==
    IF t \in DOMAIN task_control THEN task_control[t][flag] ELSE FALSE

FinalStatus(stage) == IF stage = 1 THEN "stage1_completed" ELSE "completed"

WorkerGoto(w, pc) == workers' = [workers EXCEPT ![w].pc = pc]

\* db.update_task_status(task_id, 'running', stage); task = db.get_task_by_id(task_id)
\* if not task: raise Exception(...)   (batch_processor.py:257)
WorkerBegin(w) ==
    LET me == workers[w] IN
    /\ me.pc = "begin"
    /\ tasks' = update_task_status(me.task_id, "running", Some(me.stage), NULL)
    /\ IF get_task_by_id(me.task_id) = None
       THEN workers' = [workers EXCEPT ![w].pc = "failed", ![w].error = "task not found"]
       ELSE WorkerGoto(w, "loop")
    /\ UNCHANGED <<clip, files, processing_tasks, task_control, callers, events, hist>>

\* a control check that looks at the pause flag before the stop flag
WorkerCheckControlPauseFirst(w) ==
    LET me == workers[w] IN
    /\ me.pc = "loop"
    /\ IF ControlGet(me.task_id, "pause") THEN WorkerGoto(w, "write_paused")
       ELSE IF ControlGet(me.task_id, "stop") THEN WorkerGoto(w, "write_stopped")
       ELSE WorkerGoto(w, "fetch")
    /\ UNCHANGED <<clip, tasks, files, processing_tasks, task_control, callers, events, hist>>

\* while True: control = task_control.get(task_id, {}); stop? pause?
WorkerCheckControl(w) ==
    LET me == workers[w] IN
    /\ me.pc = "loop"
    /\ IF ControlGet(me.task_id, "stop") THEN WorkerGoto(w, "write_stopped")
       ELSE IF ControlGet(me.task_id, "pause") THEN WorkerGoto(w, "write_paused")
       ELSE WorkerGoto(w, "fetch")
    /\ UNCHANGED <<clip, tasks, files, processing_tasks, task_control, callers, events, hist>>

\* db.update_task_status(task_id, 'stopped', stage); break
WorkerWriteStopped(w) ==
    LET me == workers[w] IN
    /\ me.pc = "write_stopped"
    /\ tasks' = update_task_status(me.task_id, "stopped", Some(me.stage), NULL)
    /\ WorkerGoto(w, "cleanup_registry")
    /\ UNCHANGED <<clip, files, processing_tasks, task_control, callers, events, hist>>

\* db.update_task_status(task_id, 'paused', stage); time.sleep(1); continue
WorkerWritePaused(w) ==
    LET me == workers[w] IN
    /\ me.pc = "write_paused"
    /\ tasks' = update_task_status(me.task_id, "paused", Some(me.stage), NULL)
    /\ WorkerGoto(w, "loop")
    /\ UNCHANGED <<clip, files, processing_tasks, task_control, callers, events, hist>>

\* pending_files = db.get_pending_files_for_stageN(task_id, limit=batch_size)
WorkerFetch(w) ==
    LET me == workers[w]
        pending == get_pending_files(me.task_id, me.stage, batch_size) IN
    /\ me.pc = "fetch"
    /\ workers' = [workers EXCEPT ![w].pending_files = pending,
                                  ![w].idx = 1,
                                  ![w].pc = IF pending = << >> THEN "write_finished"
                                            ELSE "file_check"]
    /\ UNCHANGED <<clip, tasks, files, processing_tasks, task_control, callers, events, hist>>

\* a store call raises inside the loop (sqlite3.OperationalError after the busy
\* timeout): the exception leaves the while loop
WorkerStoreError(w) ==
    LET me == workers[w] IN
    /\ me.pc = "fetch"
    /\ \E e \in StoreErrors:
          workers' = [workers EXCEPT ![w].pc = "failed", ![w].error = e]
    /\ UNCHANGED <<clip, tasks, files, processing_tasks, task_control, callers, events, hist>>

\* if not pending_files: db.update_task_status(task_id, 'stage1_completed'/'completed'); break
WorkerWriteFinished(w) ==
    LET me == workers[w] IN
    /\ me.pc = "write_finished"
    /\ tasks' = update_task_status(me.task_id, FinalStatus(me.stage), Some(me.stage), NULL)
    /\ WorkerGoto(w, "cleanup_registry")
    /\ UNCHANGED <<clip, files, processing_tasks, task_control, callers, events, hist>>

\* for file_info in pending_files: control = ...; if stop or pause: break
\* (after the for loop: time.sleep(0.1), back to the while loop)
WorkerFileCheck(w) ==
    LET me == workers[w] IN
    /\ me.pc = "file_check"
    /\ IF me.idx > Len(me.pending_files) THEN WorkerGoto(w, "loop")
       ELSE IF ControlGet(me.task_id, "stop") \/ ControlGet(me.task_id, "pause")
       THEN WorkerGoto(w, "loop")
       ELSE WorkerGoto(w, "in_flight")
    /\ UNCHANGED <<clip, tasks, files, processing_tasks, task_control, callers, events, hist>>

\* result = process_file_stage1(...); db.update_file_stage1_result(...)
WriteStage1(file_id, ok, r, e) ==
    IF ok THEN update_file_stage1_result(file_id, r.matched_page_number,
                   r.matched_page_base64, r.matching_score, "completed", NULL)
    ELSE update_file_stage1_result(file_id, NULL, NULL, NULL, "failed", e)

\* result = process_file_stage2(...); db.update_file_stage2_result(...)
WriteStage2(file_id, ok, r, e) ==
    IF ok THEN update_file_stage2_result(file_id, r.ocr_result,
                   r.extracted_keywords, "completed", NULL)
    ELSE update_file_stage2_result(file_id, NULL, NULL, "failed", e)

\* a worker whose per-file failure escapes the loop
WorkerProcessFileAborting(w) ==
    LET me == workers[w]
        file_id == me.pending_files[me.idx] IN
    /\ me.pc = "in_flight"
    /\ \E ok \in BOOLEAN:
          /\ IF me.stage = 1
             THEN \E r \in Stage1Results, e \in Stage1Errors:
                     files' = WriteStage1(file_id, ok, r, e)
             ELSE \E r \in Stage2Results, e \in Stage2Errors:
                     files' = WriteStage2(file_id, ok, r, e)
          /\ IF ok THEN WorkerGoto(w, "progress")
             ELSE workers' = [workers EXCEPT ![w].pc = "failed", ![w].error = "clip_error"]
    /\ UNCHANGED <<clip, tasks, processing_tasks, task_control, callers, events, hist>>

\* the collaborator call returns (a result or an error) and the row is written
WorkerProcessFile(w) ==
    LET me == workers[w]
        file_id == me.pending_files[me.idx] IN
    /\ me.pc = "in_flight"
    /\ \E ok \in BOOLEAN:
          IF me.stage = 1
          THEN \E r \in Stage1Results, e \in Stage1Errors:
                  files' = WriteStage1(file_id, ok, r, e)
          ELSE \E r \in Stage2Results, e \in Stage2Errors:
                  files' = WriteStage2(file_id, ok, r, e)
    /\ WorkerGoto(w, "progress")
    /\ UNCHANGED <<clip, tasks, processing_tasks, task_control, callers, events, hist>>

\* db.update_task_progress(task_id); next file of the batch
WorkerProgress(w) ==
    LET me == workers[w] IN
    /\ me.pc = "progress"
    /\ tasks' = update_task_progress(me.task_id)
    /\ workers' = [workers EXCEPT ![w].idx = @ + 1, ![w].pc = "file_check"]
    /\ UNCHANGED <<clip, files, processing_tasks, task_control, callers, events, hist>>

\* except Exception as e: db.update_task_status(task_id, 'failed', stage, error_message=str(e))
WorkerWriteFailed(w) ==
    LET me == workers[w] IN
    /\ me.pc = "failed"
    /\ tasks' = update_task_status(me.task_id, "failed", Some(me.stage), me.error)
    /\ WorkerGoto(w, "cleanup_registry")
    /\ UNCHANGED <<clip, files, processing_tasks, task_control, callers, events, hist>>

\* except Exception as e: db.update_task_status(...) raises in its turn (the store
\* is still unavailable): nothing is written, the exception leaves the thread
\* through the finally block
WorkerWriteFailedRaises(w) ==
    LET me == workers[w] IN
    /\ me.pc = "failed"
    /\ me.error \in StoreErrors
    /\ WorkerGoto(w, "cleanup_registry")
    /\ UNCHANGED <<clip, tasks, files, processing_tasks, task_control, callers, events, hist>>

\* finally: if task_id in processing_tasks: del processing_tasks[task_id]
WorkerCleanupRegistry(w) ==
    LET me == workers[w] IN
    /\ me.pc = "cleanup_registry"
    /\ processing_tasks' = DictDel(processing_tasks, me.task_id)
    /\ WorkerGoto(w, "cleanup_control")
    /\ UNCHANGED <<clip, tasks, files, task_control, callers, events, hist>>

\* finally: if task_id in task_control: del task_control[task_id]; the thread ends
WorkerCleanupControl(w) ==
    LET me == workers[w] IN
    /\ me.pc = "cleanup_control"
    /\ task_control' = DictDel(task_control, me.task_id)
    /\ workers' = [workers EXCEPT ![w] = FreeWorker]
    /\ hist' = [hist EXCEPT !.stop_sent = @ \ {w}, !.pause_sent = @ \ {w}]
    /\ UNCHANGED <<clip, tasks, files, processing_tasks, callers, events>>

process_task_worker(w) ==
    \/ WorkerBegin(w)
    \/ WorkerCheckControl(w)
    \/ WorkerWriteStopped(w)
    \/ WorkerWritePaused(w)
    \/ WorkerFetch(w)
    \/ WorkerStoreError(w)
    \/ WorkerWriteFinished(w)
    \/ WorkerFileCheck(w)
    \/ WorkerProcessFile(w)
    \/ WorkerProgress(w)
    \/ WorkerWriteFailed(w)
    \/ WorkerCleanupRegistry(w)
    \/ WorkerCleanupControl(w)

\* =========================================================================
\* batch_processor.py: the task controller
\* =========================================================================

IdleCaller == [pc |-> "idle", op |-> "none", task_id |-> MissingTask,
               stage |-> 0, outcome |-> "none"]

\* the call returns (outcome "ok", "nothing_pending") or raises (any other outcome)
Return(c, outcome) ==
    /\ callers' = [callers EXCEPT ![c].pc = "idle", ![c].outcome = outcome,
                                     ![c].stage = 0]
    /\ UNCHANGED events

Goto(c, pc) ==
    /\ callers' = [callers EXCEPT ![c].pc = pc]
    /\ UNCHANGED events

\* a request arrives: the call starts (and, with pc "idle", has already ended)
Enter(c, op, t, stage, pc, outcome) ==
    /\ events < MaxEvents
    /\ events' = events + 1
    /\ callers' = [callers EXCEPT ![c] =
                      [pc |-> pc, op |-> op, task_id |-> t,
                       stage |-> IF pc = "idle" THEN 0 ELSE stage,
                       outcome |-> outcome]]

\* history: the worker thread registered for t when a signal is sent
Registered(t) == IF t \in DOMAIN processing_tasks THEN {processing_tasks[t]} ELSE {}
\* history: a new call ends the observation of the last resumption
NewCall == [hist EXCEPT !.resumed = << >>]

\* lowest thread identity not in use
FreeSlots == {w \in Workers : workers[w].pc = "free"}
NewThread == CHOOSE w \in FreeSlots : \A v \in FreeSlots : w <= v

\* start_task_stageN, called by a request: if task_id in processing_tasks: raise
start_task(c, t, stage) ==
    /\ callers[c].pc = "idle"
    /\ IF t \in DOMAIN processing_tasks
       THEN Enter(c, "start", t, stage, "idle", "already_running")
       ELSE Enter(c, "start", t, stage, "start_control", "none")
    /\ hist' = NewCall
    /\ UNCHANGED <<clip, tasks, files, processing_tasks, task_control, workers>>

\* start_task_stageN, called by restart / resume_task_from_failure: the same check
StartCheck(c) ==
    /\ callers[c].pc = "start_check"
    /\ IF callers[c].task_id \in DOMAIN processing_tasks
       THEN Return(c, "already_running")
       ELSE Goto(c, "start_control")
    /\ UNCHANGED <<clip, tasks, files, processing_tasks, task_control, workers, hist>>

\* a registration that keeps the flags of an entry that is still there
StartControlKeeping(c) ==
    /\ callers[c].pc = "start_control"
    /\ task_control' = IF callers[c].task_id \in DOMAIN task_control THEN task_control
                       ELSE DictSet(task_control, callers[c].task_id,
                                    [pause |-> FALSE, stop |-> FALSE])
    /\ Goto(c, "start_thread")
    /\ UNCHANGED <<clip, tasks, files, processing_tasks, workers, hist>>

\* task_control[task_id] = {"pause": False, "stop": False}
StartControl(c) ==
    /\ callers[c].pc = "start_control"
    /\ task_control' = DictSet(task_control, callers[c].task_id,
                               [pause |-> FALSE, stop |-> FALSE])
    /\ Goto(c, "start_thread")
    /\ UNCHANGED <<clip, tasks, files, processing_tasks, workers, hist>>

\* processing_tasks[task_id] = thread; thread.start()
StartThread(c) ==
    /\ callers[c].pc = "start_thread"
    /\ processing_tasks' = DictSet(processing_tasks, callers[c].task_id, NewThread)
    /\ workers' = [workers EXCEPT ![NewThread] =
                      [FreeWorker EXCEPT !.pc = "begin",
                                         !.task_id = callers[c].task_id,
                                         !.stage = callers[c].stage]]
    /\ Return(c, "ok")
    /\ UNCHANGED <<clip, tasks, files, task_control, hist>>

\* pause_task(task_id)
pause_task(c, t) ==
    /\ callers[c].pc = "idle"
    /\ IF t \notin DOMAIN task_control
       THEN /\ Enter(c, "pause", t, 0, "idle", "not_processing")
            /\ hist' = NewCall
            /\ UNCHANGED task_control
       ELSE /\ task_control' = [task_control EXCEPT ![t].pause = TRUE]
            /\ Enter(c, "pause", t, 0, "idle", "ok")
            /\ hist' = [NewCall EXCEPT !.pause_sent = @ \cup Registered(t)]
    /\ UNCHANGED <<clip, tasks, files, processing_tasks, workers>>

\* stop_task(task_id)
stop_task(c, t) ==
    /\ callers[c].pc = "idle"
    /\ IF t \notin DOMAIN task_control
       THEN /\ Enter(c, "stop", t, 0, "idle", "not_processing")
            /\ hist' = NewCall
            /\ UNCHANGED task_control
       ELSE /\ task_control' = [task_control EXCEPT ![t].stop = TRUE]
            /\ Enter(c, "stop", t, 0, "idle", "ok")
            /\ hist' = [NewCall EXCEPT !.stop_sent = @ \cup Registered(t)]
    /\ UNCHANGED <<clip, tasks, files, processing_tasks, workers>>

\* resume_task(task_id): task_control[task_id]["pause"] = False
resume_task(c, t) ==
    /\ callers[c].pc = "idle"
    /\ IF t \notin DOMAIN task_control
       THEN /\ Enter(c, "resume", t, 0, "idle", "not_processing")
            /\ hist' = NewCall
            /\ UNCHANGED task_control
       ELSE /\ task_control' = [task_control EXCEPT ![t].pause = FALSE]
            /\ Enter(c, "resume", t, 0, "resume_status", "none")
            /\ hist' = [NewCall EXCEPT !.pause_sent = @ \ Registered(t)]
    /\ UNCHANGED <<clip, tasks, files, processing_tasks, workers>>

\* resume_task(task_id): db.update_task_status(task_id, 'running')
ResumeStatus(c) ==
    /\ callers[c].pc = "resume_status"
    /\ tasks' = update_task_status(callers[c].task_id, "running", None, NULL)
    /\ Return(c, "ok")
    /\ UNCHANGED <<clip, files, processing_tasks, task_control, workers, hist>>

\* restart_task_stageN(task_id): if task_id in processing_tasks: ...
restart_task(c, t, stage) ==
    /\ callers[c].pc = "idle"
    /\ IF t \in DOMAIN processing_tasks
       THEN Enter(c, "restart", t, stage, "restart_stop", "none")
       ELSE Enter(c, "restart", t, stage, "restart_reset", "none")
    /\ hist' = NewCall
    /\ UNCHANGED <<clip, tasks, files, processing_tasks, task_control, workers>>

\* restart_task_stageN: stop_task(task_id); time.sleep(2)
RestartStop(c) ==
    /\ callers[c].pc = "restart_stop"
    /\ IF callers[c].task_id \notin DOMAIN task_control
       THEN /\ Return(c, "not_processing")
            /\ UNCHANGED <<clip, task_control, hist>>
       ELSE /\ task_control' = [task_control EXCEPT ![callers[c].task_id].stop = TRUE]
            /\ Goto(c, "restart_reset")
            /\ hist' = [hist EXCEPT !.stop_sent = @ \cup Registered(callers[c].task_id)]
    /\ UNCHANGED <<clip, tasks, files, processing_tasks, workers>>

\* a reset statement without its WHERE clause
ResetStage1AllTasks(t) ==
    [i \in 1..Len(files) |->
        [files[i] EXCEPT !.stage1_status = "pending",
                         !.matched_page_number = NULL,
                         !.matched_page_base64 = NULL,
                         !.matching_score = NULL]]

\* restart_task_stage1: UPDATE batch_files SET stage1_status = 'pending', ... WHERE task_id = ?
ResetStage1(t) ==
    [i \in 1..Len(files) |->
        IF files[i].task_id = t
        THEN [files[i] EXCEPT !.stage1_status = "pending",
                              !.matched_page_number = NULL,
                              !.matched_page_base64 = NULL,
                              !.matching_score = NULL]
        ELSE files[i]]

\* restart_task_stage2: UPDATE batch_files SET stage2_status = 'pending', ...
\*                      WHERE task_id = ? AND stage1_status = 'completed'
ResetStage2(t) ==
    [i \in 1..Len(files) |->
        IF files[i].task_id = t /\ files[i].stage1_status = "completed"
        THEN [files[i] EXCEPT !.stage2_status = "pending",
                              !.ocr_result = NULL,
                              !.extracted_keywords = NULL]
        ELSE files[i]]

\* restart_task_stageN: the reset statement, then start_task_stageN(task_id)
RestartReset(c) ==
    /\ callers[c].pc = "restart_reset"
    /\ files' = IF callers[c].stage = 1 THEN ResetStage1(callers[c].task_id)
                ELSE ResetStage2(callers[c].task_id)
    /\ Goto(c, "start_check")
    /\ UNCHANGED <<clip, tasks, processing_tasks, task_control, workers, hist>>

\* a status check that also lets a running task through
ResumableStatusesAndRunning == {"failed", "stopped", "paused", "running"}

\* if task['status'] not in ['failed', 'stopped', 'paused']: raise
ResumableStatuses == {"failed", "stopped", "paused"}

\* resume_task_from_failure: task = db.get_task_by_id(task_id); the status check
resume_task_from_failure(c, t) ==
    LET task == get_task_by_id(t) IN
    /\ callers[c].pc = "idle"
    /\ IF task = None
       THEN Enter(c, "resume_from_failure", t, 0, "idle", "task_not_found")
       ELSE IF task[1].status \notin ResumableStatuses
       THEN Enter(c, "resume_from_failure", t, 0, "idle", "bad_status")
       ELSE Enter(c, "resume_from_failure", t, task[1].stage, "resume_registry", "none")
    /\ hist' = NewCall
    /\ UNCHANGED <<clip, tasks, files, processing_tasks, task_control, workers>>

\* resume_task_from_failure: if task_id in processing_tasks: raise
ResumeRegistry(c) ==
    /\ callers[c].pc = "resume_registry"
    /\ IF callers[c].task_id \in DOMAIN processing_tasks
       THEN Return(c, "already_running")
       ELSE Goto(c, "resume_stats")
    /\ UNCHANGED <<clip, tasks, files, processing_tasks, task_control, workers, hist>>

\* resume_task_from_failure: stats = db.get_task_statistics(task_id); pending_count
\* (pending_count is unbound when the stage is neither 1 nor 2: the call raises)
ResumeStats(c) ==
    LET stats == get_task_statistics(callers[c].task_id)
        stage == callers[c].stage
        pending_count == IF stage = 1 THEN stats.stage1_pending ELSE stats.stage2_pending
    IN
    /\ callers[c].pc = "resume_stats"
    /\ IF stage \notin {1, 2} THEN Return(c, "invalid_stage")
       ELSE IF pending_count = Some(0) THEN Return(c, "nothing_pending")
       ELSE Goto(c, "resume_reset")
    /\ UNCHANGED <<clip, tasks, files, processing_tasks, task_control, workers, hist>>

\* resume_task_from_failure: db.reset_task_status_for_resume(task_id, current_stage),
\* then start_task_stageN(task_id)
ResumeReset(c) ==
    /\ callers[c].pc = "resume_reset"
    /\ tasks' = reset_task_status_for_resume(callers[c].task_id, callers[c].stage)
    /\ Goto(c, "start_check")
    /\ hist' = [hist EXCEPT !.resumed = <<[task_id |-> callers[c].task_id,
                                           stage |-> callers[c].stage,
                                           files |-> files]>>]
    /\ UNCHANGED <<clip, files, processing_tasks, task_control, workers>>

\* the calls that launch a worker, and the steps of the one the thread is in
launch_calls(c) ==
    \/ \E t \in TaskIds, stage \in {1, 2} : start_task(c, t, stage)
    \/ StartCheck(c)
    \/ StartControl(c)
    \/ StartThread(c)
    \/ \E t \in TaskIds, stage \in {1, 2} : restart_task(c, t, stage)
    \/ RestartStop(c)
    \/ RestartReset(c)
    \/ \E t \in TaskIds \cup {MissingTask} : resume_task_from_failure(c, t)
    \/ ResumeRegistry(c)
    \/ ResumeStats(c)
    \/ ResumeReset(c)

\* the calls that signal a running worker
signal_calls(c) ==
    \/ \E t \in TaskIds : pause_task(c, t)
    \/ \E t \in TaskIds : stop_task(c, t)
    \/ \E t \in TaskIds : resume_task(c, t)
    \/ ResumeStatus(c)

controller(c) == launch_calls(c) \/ signal_calls(c)

NoHistory == [stop_sent |-> {}, pause_sent |-> {}, resumed |-> << >>]

\* the process dies and is started again: the store survives, the registries,
\* the worker threads and the requests in progress do not
ProcessRestart ==
    /\ processing_tasks' = << >>
    /\ task_control' = << >>
    /\ workers' = [w \in Workers |-> FreeWorker]
    /\ callers' = [c \in RequestThreads |-> IdleCaller]
    /\ events < MaxEvents
    /\ events' = events + 1
    /\ hist' = NoHistory
    /\ UNCHANGED <<clip, tasks, files>>

\* =========================================================================
\* specifications
\* =========================================================================

\* a file row after a stage-1 run: update_file_stage1_result on a new row
Stage1DoneRow(t, ok) ==
    IF ok
    THEN [NewFileRow(t) EXCEPT !.stage1_status = "completed",
                               !.matched_page_number = "page2",
                               !.matched_page_base64 = "img2",
                               !.matching_score = "0.40"]
    ELSE [NewFileRow(t) EXCEPT !.stage1_status = "failed",
                               !.error_message = "clip_error"]

\* a task created from a scanned directory (create_batch_task, add_files_to_task)
InitCreated ==
    /\ tasks = [t \in TaskIds |-> NewTaskRow(NumFiles)]
    /\ files = [i \in 1..NumFiles |-> NewFileRow("t1")]

\* the same task after its stage-1 worker has run to the end in an earlier run of
\* the process: every file settled for stage 1, task status stage1_completed
InitStage1Completed ==
    /\ tasks = [t \in TaskIds |->
                  [NewTaskRow(NumFiles) EXCEPT !.status = "stage1_completed",
                                               !.stage = 1]]
    /\ \E oks \in [1..NumFiles -> BOOLEAN] :
          files = [i \in 1..NumFiles |-> Stage1DoneRow("t1", oks[i])]

\* a process that has just started: empty registries, no thread
InitMemory ==
    /\ processing_tasks = << >>
    /\ task_control = << >>
    /\ workers = [w \in Workers |-> FreeWorker]
    /\ callers = [c \in RequestThreads |-> IdleCaller]
    /\ events = 0
    /\ hist = NoHistory
    /\ clip = NoRequest

Init == (InitCreated \/ InitStage1Completed) /\ InitMemory

\* the process has come up over a task that was just created
InitNewTask == InitCreated /\ InitMemory

Next ==
    \/ \E c \in EventLoop : controller(c)
    \/ \E w \in Workers : process_task_worker(w)
    \/ ProcessRestart

Spec == Init /\ [][Next]_vars

\* one process lifetime: controller calls and worker threads, the process never dies
NextLifetime ==
    \/ \E c \in EventLoop : controller(c)
    \/ \E w \in Workers : process_task_worker(w)

SpecLifetime == Init /\ [][NextLifetime]_vars

\* one process lifetime of starting, pausing, resuming and stopping a created task
NextSignal ==
    \/ \E c \in EventLoop :
          \/ \E t \in TaskIds, stage \in {1, 2} : start_task(c, t, stage)
          \/ StartControl(c)
          \/ StartThread(c)
          \/ signal_calls(c)
    \/ \E w \in Workers : process_task_worker(w)

\* every started thread is scheduled again and again, and the collaborator call
\* and the store calls it makes return
SpecFair ==
    /\ InitNewTask
    /\ [][NextSignal]_vars
    /\ \A w \in Workers : WF_vars(process_task_worker(w))

\* two request threads call the controller at the same time: both start and
\* resume-from-failure, one of them also pauses, resumes and stops
start_calls(c) ==
    \/ \E t \in TaskIds, stage \in {1, 2} : start_task(c, t, stage)
    \/ StartCheck(c)
    \/ StartControl(c)
    \/ StartThread(c)

resume_calls(c) ==
    \/ \E t \in TaskIds \cup {MissingTask} : resume_task_from_failure(c, t)
    \/ ResumeRegistry(c)
    \/ ResumeStats(c)
    \/ ResumeReset(c)

NextConc ==
    \/ \E c \in RequestThreads : start_calls(c) \/ resume_calls(c)
    \/ \E c \in EventLoop : signal_calls(c)
    \/ \E w \in Workers : process_task_worker(w)

SpecConc == InitNewTask /\ [][NextConc]_vars

\* the same lifetime over a store that can stay unavailable once a call on it
\* has raised
NextStoreFaults ==
    \/ NextSignal
    \/ \E w \in Workers : WorkerWriteFailedRaises(w)

SpecStoreFaults == InitNewTask /\ [][NextStoreFaults]_vars

\* one process lifetime in which neither restart_task_stage1 nor
\* restart_task_stage2 is called
NextNoRestart ==
    \/ \E c \in EventLoop : start_calls(c) \/ resume_calls(c) \/ signal_calls(c)
    \/ \E w \in Workers : process_task_worker(w)

SpecNoRestart == Init /\ [][NextNoRestart]_vars

\* process lifetimes ended by a crash, with no restart_task_stageN call
NextCrash ==
    \/ NextNoRestart
    \/ ProcessRestart

SpecCrash == Init /\ [][NextCrash]_vars

TypeOK ==
    /\ DOMAIN tasks = TaskIds
    /\ DOMAIN processing_tasks \subseteq TaskIds
    /\ DOMAIN task_control \subseteq TaskIds
    /\ \A w \in Workers : workers[w].idx <= Len(workers[w].pending_files) + 1

\* =========================================================================
\* properties
\* =========================================================================

StageStatus(f, stage) == IF stage = 1 THEN f.stage1_status ELSE f.stage2_status

\* the files the stage's pending query can ever return
Eligible(f, stage) == stage = 1 \/ f.stage1_status = "completed"

\* a worker thread that has not yet reached its finally block
InLoop(w) == workers[w].pc \notin {"free", "cleanup_registry", "cleanup_control"}

\* resume_task_from_failure has relaunched a worker and no call has come since
Resumed == hist.resumed # << >>
AtResume == hist.resumed[1]
ResumedRunComplete ==
    /\ Resumed
    /\ tasks[AtResume.task_id].status = FinalStatus(AtResume.stage)

\* the files already completed or failed for the stage keep their whole row
SettledUnchanged ==
    Resumed =>
        \A i \in 1..Len(files) :
            StageStatus(AtResume.files[i], AtResume.stage) # "pending"
                => files[i] = AtResume.files[i]

\* C1 as stated: after resume_task_from_failure and the relaunched worker's run to
\* completion, every one of the N files has a non-pending status for the stage and
\* the files settled before the resumption are unchanged
C1_AllFilesSettled ==
    /\ SettledUnchanged
    /\ ResumedRunComplete =>
          \A i \in 1..Len(files) : StageStatus(files[i], AtResume.stage) # "pending"

\* C1 amended: after resume_task_from_failure and the relaunched worker's run to
\* completion, every file the stage can process (stage 1: every file; stage 2:
\* every file whose stage 1 completed) has a non-pending status for the stage, and
\* the files settled before the resumption are unchanged
C1_ResumptionIdempotent ==
    /\ SettledUnchanged
    /\ ResumedRunComplete =>
          \A i \in 1..Len(files) :
              Eligible(files[i], AtResume.stage)
                  => StageStatus(files[i], AtResume.stage) # "pending"

\* C1 witness: a resumed run has completed with one file settled before the
\* resumption and another settled by the relaunched worker
C1_Witness ==
    /\ ResumedRunComplete
    /\ \E i, j \in 1..Len(files) :
          /\ StageStatus(AtResume.files[i], AtResume.stage) # "pending"
          /\ StageStatus(AtResume.files[j], AtResume.stage) = "pending"
          /\ StageStatus(files[j], AtResume.stage) # "pending"

\* C2: under controller calls made from different request threads at the same
\* time, each task has at most one worker thread at work
C2_AtMostOneWorker ==
    \A t \in TaskIds :
        Cardinality({w \in Workers : InLoop(w) /\ workers[w].task_id = t}) <= 1

\* the file a worker is at in its batch
CurrentFile(w) == workers[w].pending_files[workers[w].idx]

\* the query half of C3: whatever the stage2_status, a row whose stage 1 is not
\* completed is not returned
QueryGated ==
    \A t \in TaskIds, limit \in 1..batch_size :
        LET got == get_pending_files_for_stage2(t, limit) IN
        \A k \in 1..Len(got) : files[got[k]].stage1_status = "completed"

\* C3: get_pending_files_for_stage2 never returns a file whose stage 1 has not
\* completed, so a stage-2 worker never starts extraction on a file whose
\* stage1_status is not completed
C3_NeverExtractsUngated ==
    [][\A w \in Workers :
        workers[w].stage = 2 /\ workers[w].pc = "file_check" /\ workers'[w].pc = "in_flight"
            => files[CurrentFile(w)].stage1_status = "completed"]_vars

FileErrors == Stage1Errors \cup Stage2Errors

\* worker thread w takes a step (the process is not killed under it)
WorkerSteps(w) == workers'[w] # workers[w] /\ workers'[w].pc # "free"

\* the step that settles the file in flight as failed
FailureRecorded(w) ==
    /\ workers[w].pc = "in_flight"
    /\ WorkerSteps(w)
    /\ StageStatus(files'[CurrentFile(w)], workers[w].stage) = "failed"

\* the worker's step at the head of a file of its batch, no flag raised
NextFileDue(w) ==
    /\ workers[w].pc = "file_check"
    /\ WorkerSteps(w)
    /\ workers[w].idx <= Len(workers[w].pending_files)
    /\ ~ControlGet(workers[w].task_id, "stop")
    /\ ~ControlGet(workers[w].task_id, "pause")

\* C4: a failed collaborator call is recorded on the file as failed with the error
\* text, the worker goes on to the next file of the batch, which it attempts unless
\* a pause or stop flag is up, and the task row is not touched by the failure
C4_PartialFailureIsolation ==
    [][\A w \in Workers :
        /\ FailureRecorded(w) =>
              /\ files'[CurrentFile(w)].error_message \in FileErrors
              /\ workers'[w].pc = "progress"
              /\ tasks' = tasks
        /\ workers[w].pc = "progress" /\ WorkerSteps(w) =>
              /\ workers'[w].pc = "file_check"
              /\ workers'[w].idx = workers[w].idx + 1
              /\ tasks'[workers[w].task_id].status = tasks[workers[w].task_id].status
        /\ NextFileDue(w) =>
              /\ workers'[w].pc = "in_flight"
              /\ workers'[w].idx = workers[w].idx]_vars

\* C4 witness: in one batch the first file failed and the second was still
\* processed and completed, the task not failed
C4_Witness ==
    \E w \in Workers :
        /\ workers[w].pc = "progress" /\ workers[w].idx = 2
        /\ StageStatus(files[workers[w].pending_files[1]], workers[w].stage) = "failed"
        /\ files[workers[w].pending_files[1]].error_message \in FileErrors
        /\ StageStatus(files[workers[w].pending_files[2]], workers[w].stage) = "completed"
        /\ tasks[workers[w].task_id].status = "running"

\* C5: after stop_task has set the stop flag for the registered worker, that
\* worker starts no further file: only the file already in flight is written and
\* the other pending files stay pending
C5_StopCooperative ==
    [][\A w \in hist.stop_sent :
        workers[w].pc = "file_check" => workers'[w].pc # "in_flight"]_vars

\* worker thread w has left its loop and the registry no longer names it
Gone(w) ==
    /\ ~InLoop(w)
    /\ \A t \in DOMAIN processing_tasks : processing_tasks[t] # w

\* the step by which a worker that was sent a stop leaves its loop
StoppedWorkerExits(w) ==
    /\ w \in hist.stop_sent
    /\ InLoop(w)
    /\ workers'[w].pc = "cleanup_registry"

C7_PauseStartsNoFile ==
    [][\A w \in hist.pause_sent :
        workers[w].pc = "file_check" => workers'[w].pc # "in_flight"]_vars

\* the last call of request thread c was resume_task and it returned normally
ResumeReturned(c) ==
    /\ callers[c].op = "resume"
    /\ callers[c].pc = "idle"
    /\ callers[c].outcome = "ok"

\* worker thread w is fetching or processing files
Processing(w) == workers[w].pc \in {"fetch", "file_check", "in_flight", "progress"}

\* C8: after resume_task has returned, with no later pause or stop, the stored
\* status is running while the task's worker goes on processing files
C8_ResumeLeavesRunning ==
    \A c \in EventLoop :
        ResumeReturned(c) =>
            \A w \in Workers :
                Processing(w) /\ workers[w].task_id = callers[c].task_id
                    => tasks[callers[c].task_id].status = "running"

\* no registry entry and no worker thread: the process has just come up
NothingInMemory ==
    /\ processing_tasks = << >>
    /\ task_control = << >>
    /\ \A w \in Workers : workers[w].pc = "free"

\* request thread c calls resume_task_from_failure for task t in this step
CallsResumeFromFailure(c, t) ==
    /\ callers[c].pc = "idle"
    /\ events' # events
    /\ callers'[c].op = "resume_from_failure"
    /\ callers'[c].task_id = t

\* C9: with both registries empty and no worker alive, resume_task_from_failure
\* called for a task whose stored status is running does not reject the task
C9_RunningTaskResumable ==
    [][\A c \in EventLoop, t \in TaskIds :
        /\ NothingInMemory
        /\ tasks[t].status = "running"
        /\ CallsResumeFromFailure(c, t)
        => callers'[c].outcome = "none"]_vars

\* a step of a resume_task_from_failure call of request thread c
ResumeFromFailureSteps(c) ==
    /\ callers'[c].op = "resume_from_failure"
    /\ callers'[c] # callers[c] \/ (callers[c].pc = "idle" /\ events' # events)

Raises(outcome) == outcome \notin {"none", "ok", "nothing_pending"}

\* the guard of C10, check by check: resume_task_from_failure goes past its checks
\* only for a task whose status it read as failed, stopped or paused and with no
\* worker registered when it looked; a call that
\* raises (task missing, other status, worker registered) raises before it has
\* written anything and leaves the task row, the file rows and the registries as
\* they are; a call that went past the checks does not raise afterwards
C10_ResumeFromFailureGuard ==
    [][\A c \in EventLoop :
        ResumeFromFailureSteps(c) =>
            /\ callers'[c].pc = "resume_registry" =>
                  /\ get_task_by_id(callers'[c].task_id) # None
                  /\ tasks[callers'[c].task_id].status \in {"failed", "stopped", "paused"}
            /\ callers'[c].pc = "resume_stats" =>
                  callers[c].task_id \notin DOMAIN processing_tasks
            /\ callers'[c].pc = "idle" /\ Raises(callers'[c].outcome) =>
                  /\ callers[c].pc \in {"idle", "resume_registry", "resume_stats"}
                  /\ UNCHANGED <<clip, tasks, files, processing_tasks, task_control>>
            /\ callers'[c].pc = "idle" /\ callers[c].pc = "idle" =>
                  Raises(callers'[c].outcome)]_vars

\* the guard of C10 at work: a task paused with its worker still registered and
\* idling has been refused
C10_Witness ==
    \E c \in EventLoop :
        /\ callers[c].op = "resume_from_failure"
        /\ callers[c].pc = "idle"
        /\ callers[c].outcome = "already_running"
        /\ tasks[callers[c].task_id].status = "paused"
        /\ callers[c].task_id \in DOMAIN processing_tasks
        /\ workers[processing_tasks[callers[c].task_id]].pc \in {"loop", "write_paused"}

\* C10: resume_task_from_failure is accepted only when the task's status is failed,
\* stopped or paused and no worker is registered: when the call resets the task row
\* and relaunches, the status is one of these and the registry has no entry
C10_Strict ==
    [][\A c \in EventLoop :
        callers[c].op = "resume_from_failure" /\ callers[c].pc = "resume_reset"
        /\ callers'[c].pc = "start_check"
        => /\ tasks[callers[c].task_id].status \in {"failed", "stopped", "paused"}
           /\ callers[c].task_id \notin DOMAIN processing_tasks]_vars

\* request thread c takes a step of its own (the process is not killed under it)
CallerSteps(c) ==
    /\ callers'[c].op # "none"
    /\ callers'[c] # callers[c] \/ (callers[c].pc = "idle" /\ events' # events)

\* request thread c is at `if task_id in processing_tasks` of start_task_stageN,
\* called by a request or from restart_task_stageN / resume_task_from_failure
AtStartCheck(c, t) ==
    \/ /\ callers[c].pc = "idle"
       /\ events' # events
       /\ callers'[c].op = "start"
       /\ callers'[c].task_id = t
    \/ /\ callers[c].pc = "start_check"
       /\ CallerSteps(c)
       /\ callers[c].task_id = t

NewFlags == [pause |-> FALSE, stop |-> FALSE]

\* C11: start_task_stage1/2 raise 'already running' when a worker is registered
\* for the task and leave its pause/stop flags (and everything else) as they are;
\* otherwise they register the flags {pause: false, stop: false}, and only after
\* that register and start the worker thread
C11_StartGuard ==
    [][\A c \in EventLoop :
        /\ \A t \in TaskIds :
              AtStartCheck(c, t) =>
                  IF t \in DOMAIN processing_tasks
                  THEN /\ callers'[c].pc = "idle"
                       /\ callers'[c].outcome = "already_running"
                       /\ UNCHANGED <<clip, tasks, files, processing_tasks, task_control, workers>>
                  ELSE /\ callers'[c].pc = "start_control"
                       /\ UNCHANGED <<clip, tasks, files, processing_tasks, task_control, workers>>
        /\ callers[c].pc = "start_control" /\ CallerSteps(c) =>
              /\ task_control'[callers[c].task_id] = NewFlags
              /\ callers'[c].pc = "start_thread"
              /\ UNCHANGED <<clip, processing_tasks, workers>>
        /\ \A w \in Workers :
              workers[w].pc = "free" /\ workers'[w].pc # "free" =>
                  \E d \in EventLoop :
                      /\ callers[d].pc = "start_thread"
                      /\ callers'[d].pc = "idle"
                      /\ processing_tasks'[callers[d].task_id] = w
                      /\ workers'[w].task_id = callers[d].task_id]_vars

\* C11 witness: a start was refused while the registered worker's pause flag was
\* up, and the flag is still up
C11_Witness ==
    \E c \in EventLoop :
        /\ callers[c].op = "start"
        /\ callers[c].pc = "idle"
        /\ callers[c].outcome = "already_running"
        /\ callers[c].task_id \in DOMAIN processing_tasks
        /\ callers[c].task_id \in DOMAIN task_control
        /\ task_control[callers[c].task_id].pause

\* restart_task_stageN of request thread c returns or raises in this step
RestartEnds(c) ==
    /\ callers[c].op = "restart"
    /\ callers[c].pc # "idle"
    /\ CallerSteps(c)
    /\ callers'[c].pc = "idle"

\* C12: restart_task_stage1/2, with or without a worker running, ends with every
\* file's status for the stage reset to pending and a newly launched worker
\* registered: it never raises, before or after the reset
C12_RestartRelaunches ==
    [][\A c \in EventLoop :
        RestartEnds(c) =>
            /\ callers'[c].outcome = "ok"
            /\ callers[c].task_id \in DOMAIN processing_tasks'
            /\ workers'[processing_tasks'[callers[c].task_id]].pc = "begin"
            /\ workers'[processing_tasks'[callers[c].task_id]].stage = callers[c].stage]_vars

\* C13: in every reachable state a file's overall status is failed if and only
\* if its stage1_status is failed or its stage2_status is failed
C13_OverallStatusFailed ==
    \A id \in FileIds :
        files[id].status = "failed" <=>
            (files[id].stage1_status = "failed" \/ files[id].stage2_status = "failed")

\* worker w writes the result of its current file in this step
WritesResult(w) == workers[w].pc = "in_flight" /\ workers'[w].pc \in {"progress", "failed"}

\* the UPDATE of restart_task_stageN runs in this step
RestartResets(stage) ==
    \E c \in RequestThreads :
        /\ callers[c].pc = "restart_reset" /\ callers[c].stage = stage
        /\ callers'[c].pc = "start_check"

\* C14: a worker writes a stage result only to a file whose status for that stage
\* is pending, and a file's status for a stage changes only from pending or by
\* the reset of a restart of that stage: between two restarts it changes at most
\* once
C14_NoReprocessing ==
    [][/\ \A w \in Workers :
            WritesResult(w) =>
                StageStatus(files[CurrentFile(w)], workers[w].stage) = "pending"
       /\ \A id \in FileIds, stage \in {1, 2} :
            StageStatus(files'[id], stage) # StageStatus(files[id], stage) =>
                \/ StageStatus(files[id], stage) = "pending"
                \/ RestartResets(stage) /\ StageStatus(files'[id], stage) = "pending"]_vars

\* a worker has written a result to the second file of a batch it fetched before
\* the first was written
C14_Witness ==
    \E w \in Workers :
        /\ workers[w].pc = "progress" /\ workers[w].idx = 2
        /\ StageStatus(files[CurrentFile(w)], workers[w].stage) # "pending"

\* C15: in every reachable state, restart_task_stage1 included, a file whose
\* stage2_status is completed or failed has stage1_status completed
C15_Stage2ImpliesStage1 ==
    \A id \in FileIds :
        files[id].stage2_status \in {"completed", "failed"} =>
            files[id].stage1_status = "completed"

\* no worker is between a file write and the update_task_progress that follows it
NoProgressDue == \A w \in Workers : workers[w].pc # "progress"

\* C16: whenever no worker is between a file write and its update_task_progress,
\* processed_files, failed_files and progress of the task equal the values
\* recomputed from the file rows, after worker steps and controller calls
\* (restart included)
C16_CountersMatchRows ==
    NoProgressDue =>
        \A t \in DOMAIN tasks :
            LET fresh == update_task_progress(t)[t] IN
            /\ tasks[t].processed_files = fresh.processed_files
            /\ tasks[t].failed_files = fresh.failed_files
            /\ tasks[t].progress = fresh.progress

\* C17: without restart_task_stage1 the stage of a task never decreases: no
\* sequence of start_task_stage1, start_task_stage2, pause, resume, stop and
\* resume_task_from_failure moves it from 2 back to 1
C17_StageNeverDecreases ==
    [][\A t \in DOMAIN tasks : tasks'[t].stage >= tasks[t].stage]_vars

\* the task row says running at the given stage
RunningAt(row, stage) == row.status = "running" /\ row.stage = stage

\* C18: status follows created -> running(stage 1) -> stage1_completed ->
\* running(stage 2) -> completed, with paused, stopped and failed on the side: a
\* task enters running at stage 2 only from stage1_completed or from a status
\* at stage 2, and reaches completed only from running at stage 2
C18_StatusStateMachine ==
    [][\A t \in DOMAIN tasks :
        /\ RunningAt(tasks'[t], 2) /\ ~RunningAt(tasks[t], 2) =>
              tasks[t].status = "stage1_completed" \/ tasks[t].stage = 2
        /\ tasks'[t].status = "completed" /\ tasks[t].status # "completed" =>
              RunningAt(tasks[t], 2)]_vars

\* worker w writes the final status of its stage in this step
WritesFinal(w) == workers[w].pc = "write_finished" /\ workers'[w].pc = "cleanup_registry"

\* the while-loop check of worker w has seen the stop or the pause flag
ObservedSignal(w) == workers[w].pc \in {"write_stopped", "write_paused"}

FinalStatuses == {"stage1_completed", "completed"}

\* C19: a worker writes stage1_completed only when no file of the task has
\* stage1_status pending, and completed only when no file has stage1_status
\* completed with stage2_status pending; a worker whose check saw pause or stop
\* writes paused or stopped, never one of these two statuses
C19_FinalStatusOnlyWhenDone ==
    [][\A w \in Workers :
        /\ WritesFinal(w) =>
              get_pending_files(workers[w].task_id, workers[w].stage, NumFiles) = << >>
        /\ ObservedSignal(w) /\ WorkerSteps(w) =>
              /\ tasks'[workers[w].task_id].status \in {"stopped", "paused"}
              /\ tasks'[workers[w].task_id].status \notin FinalStatuses]_vars

\* the ids of the files of task t a worker of the stage has still to process
PendingIds(t, stage) ==
    {i \in FileIds : /\ files[i].task_id = t
                     /\ Eligible(files[i], stage)
                     /\ StageStatus(files[i], stage) = "pending"}

\* get_pending_files_for_stageN(t, limit) returns at most limit files, all of them
\* pending for the stage, in ascending id order, and no pending file left out has
\* a smaller id than one returned
SmallestIdsFirst(t, stage, limit) ==
    LET rows == get_pending_files(t, stage, limit) IN
    /\ Len(rows) <= limit
    /\ Len(rows) = Min(limit, Cardinality(PendingIds(t, stage)))
    /\ \A k \in 1..Len(rows) : rows[k] \in PendingIds(t, stage)
    /\ \A k \in 1..Len(rows) - 1 : rows[k] < rows[k + 1]
    /\ \A k \in 1..Len(rows), j \in PendingIds(t, stage) :
          j < rows[k] => \E m \in 1..Len(rows) : rows[m] = j

\* C20: within one task and stage a worker processes files in strictly increasing
\* id: the query returns at most limit pending files, those with the smallest ids,
\* ascending, and a worker never writes a result for a file while a file of the
\* task with a smaller id is still pending for the stage
C20_IncreasingFileId ==
    [][/\ \A t \in TaskIds, stage \in {1, 2}, limit \in 1..NumFiles :
            SmallestIdsFirst(t, stage, limit)
       /\ \A w \in Workers :
            WritesResult(w) =>
                \A j \in PendingIds(workers[w].task_id, workers[w].stage) :
                    j >= CurrentFile(w)]_vars

\* worker w leaves its loop in this step, on the way to the finally block
ExitsLoop(w) ==
    /\ workers[w].pc \notin {"free", "cleanup_registry", "cleanup_control"}
    /\ workers'[w].pc = "cleanup_registry"

\* C21: when an exception escapes the worker loop the worker records the task as
\* failed with the error message, ends, and removes its registry and control
\* entries; no exit path of a worker leaves the task running with no error
\* recorded
C21_FailureRecorded ==
    [][\A w \in Workers :
        LET t == workers[w].task_id IN
        /\ workers[w].pc = "failed" /\ WorkerSteps(w) /\ t \in DOMAIN tasks =>
              /\ tasks'[t].status = "failed"
              /\ tasks'[t].error_message = workers[w].error
        /\ ExitsLoop(w) /\ t \in DOMAIN tasks =>
              tasks'[t].status # "running"
        /\ workers[w].pc = "cleanup_registry" /\ WorkerSteps(w) =>
              t \notin DOMAIN processing_tasks'
        /\ workers[w].pc = "cleanup_control" /\ workers'[w].pc = "free" =>
              t \notin DOMAIN task_control']_vars

\* worker w is inside a batch it has fetched
InBatch(w) == workers[w].pc \in {"file_check", "in_flight", "progress"}

\* the positions of the batch of worker w whose file the worker has finished
FinishedPositions(w) ==
    {k \in 1..Len(workers[w].pending_files) :
        k < workers[w].idx \/ (k = workers[w].idx /\ workers[w].pc = "progress")}

\* the row has its result for the stage: a status other than pending, and the
\* result columns when the status is completed
ResultCommitted(f, stage) ==
    /\ StageStatus(f, stage) # "pending"
    /\ StageStatus(f, stage) = "completed" =>
          IF stage = 1 THEN f.matched_page_number # NULL ELSE f.ocr_result # NULL

\* the process dies in this step while worker w is running
DiesUnder(w) == workers[w].pc # "free" /\ workers[w].pc # "cleanup_control" /\ workers'[w].pc = "free"

\* C22: if the process dies while a worker is inside a batch, every file of the
\* batch the worker finished before the in-flight one has its result and a
\* non-pending stage status in the store; only the in-flight file is left
\* pending without a result
C22_CrashLeavesPriorRows ==
    [][\A w \in Workers :
        InBatch(w) /\ DiesUnder(w) =>
            \A k \in FinishedPositions(w) :
                ResultCommitted(files'[workers[w].pending_files[k]], workers[w].stage)]_vars

\* request thread c executes reset_task_status_for_resume in this step
ResetsForResume(c) == callers[c].pc = "resume_reset" /\ CallerSteps(c)

\* C23: reset_task_status_for_resume sets the task's status to running, its stage
\* to the given stage and clears its error message, and leaves every file row
\* of the task unchanged
C23_ResetTouchesTaskOnly ==
    [][\A c \in EventLoop :
        ResetsForResume(c) =>
            LET t == callers[c].task_id IN
            /\ tasks'[t] = [tasks[t] EXCEPT !.status = "running",
                                            !.stage = callers[c].stage,
                                            !.error_message = NULL]
            /\ files' = files]_vars

\* the reset has run on a task whose worker had failed: the task row is running
\* with no error while a file row still carries its failure
C23_Witness ==
    \E c \in EventLoop :
        /\ callers[c].op = "resume_from_failure" /\ callers[c].pc = "start_check"
        /\ Resumed
        /\ AtResume.files = files
        /\ tasks[callers[c].task_id].status = "running"
        /\ tasks[callers[c].task_id].error_message = NULL
        /\ \E id \in FileIds : /\ files[id].stage1_status = "failed"
                               /\ files[id].error_message # NULL

\* =========================================================================
\* task_database.py, app.py: creating a task, adding files, soft delete
\* =========================================================================

MaxRequests == 4     \* requests in one behaviour of SpecStore
MaxRows == 4         \* rows of batch_files in one behaviour of SpecStore
MaxList == 2         \* files in one add_files_to_task call

\* task ids uuid.uuid4() can return
Uuids == {"t1", "t2"}

\* source_path values that reach the handler (task_name and source_path are
\* required form fields: Form(...))
SourcePaths == {"missing", "a_file", "empty_dir", "pdf_dir"}

\* os.path.exists(source_path)
path_exists(p) == p \in {"a_file", "empty_dir", "pdf_dir"}

\* os.path.isdir(source_path)
path_isdir(p) == p \in {"empty_dir", "pdf_dir"}

\* len(batch_processor.scan_directory(source_path)): the PDF files found
scan_directory(p) == IF p = "pdf_dir" THEN MaxList ELSE 0

\* create_batch_task(task_id, task_name, source_path): INSERT INTO batch_tasks
create_batch_task(t) == DictSet(tasks, t, NewTaskRow(0))

\* add_files_to_task: INSERT INTO batch_files, one row per file of the list
inserted_files(t, n) == files \o [i \in 1..n |-> NewFileRow(t)]

\* a total that is the length of the list just added
total_files_of_list(rows, t, n) ==
    IF t \notin DOMAIN rows THEN rows
    ELSE [rows EXCEPT ![t].total_files = n]

\* add_files_to_task: UPDATE batch_tasks SET total_files = (SELECT COUNT(*) ...)
total_files_recount(rows, t, n) ==
    IF t \notin DOMAIN rows THEN rows
    ELSE [rows EXCEPT ![t].total_files =
             Cardinality({i \in 1..Len(inserted_files(t, n)) :
                             inserted_files(t, n)[i].task_id = t})]

\* mark_task_deleted(task_id)
mark_task_deleted(t) ==
    IF t \notin DOMAIN tasks THEN tasks
    ELSE [tasks EXCEPT ![t].is_deleted = 1]

\* get_all_tasks(include_deleted): the ids of the rows returned
get_all_tasks(include_deleted) ==
    {t \in DOMAIN tasks : include_deleted \/ tasks[t].is_deleted = 0}

\* a request is served from start to end on the event loop
Serve(c, op, t, outcome) ==
    /\ events < MaxRequests
    /\ events' = events + 1
    /\ callers' = [callers EXCEPT ![c] = [pc |-> "idle", op |-> op, task_id |-> t,
                                          stage |-> 0, outcome |-> outcome]]

\* POST /api/batch-tasks/create
CreateTaskRequest(c, p) ==
    LET task_id == CHOOSE t \in Uuids : t \notin DOMAIN tasks
        n == scan_directory(p) IN
    /\ DOMAIN tasks # Uuids
    /\ Len(files) + n <= MaxRows
    /\ IF ~path_exists(p)
       THEN Serve(c, "create", MissingTask, "path_missing") /\ UNCHANGED <<clip, tasks, files>>
       ELSE IF ~path_isdir(p)
       THEN Serve(c, "create", MissingTask, "not_a_directory") /\ UNCHANGED <<clip, tasks, files>>
       ELSE IF n = 0
       THEN /\ tasks' = create_batch_task(task_id)
            /\ Serve(c, "create", task_id, "no_pdf_found")
            /\ UNCHANGED files
       ELSE /\ files' = inserted_files(task_id, n)
            /\ tasks' = total_files_recount(create_batch_task(task_id), task_id, n)
            /\ Serve(c, "create", task_id, "ok")
    /\ UNCHANGED <<clip, processing_tasks, task_control, workers, hist>>

\* add_files_to_task(task_id, files) with a list of n files
AddFilesCall(c, t, n) ==
    /\ t \in DOMAIN tasks
    /\ Len(files) + n <= MaxRows
    /\ files' = inserted_files(t, n)
    /\ tasks' = total_files_recount(tasks, t, n)
    /\ Serve(c, "add_files", t, "ok")
    /\ UNCHANGED <<clip, processing_tasks, task_control, workers, hist>>

\* DELETE /api/batch-tasks/{task_id}
DeleteTaskRequest(c, t) ==
    /\ tasks' = mark_task_deleted(t)
    /\ Serve(c, "delete", t, "ok")
    /\ UNCHANGED <<clip, files, processing_tasks, task_control, workers, hist>>

\* an empty store in a process that has just started
InitStore ==
    /\ tasks = << >>
    /\ files = << >>
    /\ InitMemory

NextStore ==
    \E c \in EventLoop :
        \/ \E p \in SourcePaths : CreateTaskRequest(c, p)
        \/ \E t \in Uuids, n \in 1..MaxList : AddFilesCall(c, t, n)
        \/ \E t \in Uuids : DeleteTaskRequest(c, t)

SpecStore == InitStore /\ [][NextStore]_vars

\* the request just served, if it is of the given kind
Served(c, op) == events' # events /\ callers'[c].op = op

\* C24: after mark_task_deleted(t), t is absent from get_all_tasks() and
\* get_task_by_id(t) returns nothing, while its task row and file rows remain
\* stored and t appears in get_all_tasks(include_deleted=True); no operation
\* removes a task row or a deletion mark
C24_SoftDelete ==
    [][/\ \A c \in EventLoop, t \in DOMAIN tasks :
            Served(c, "delete") /\ callers'[c].task_id = t =>
                /\ t \notin get_all_tasks(FALSE)'
                /\ get_task_by_id(t)' = None
                /\ t \in get_all_tasks(TRUE)'
                /\ tasks' = [tasks EXCEPT ![t].is_deleted = 1]
                /\ files' = files
       /\ \A t \in DOMAIN tasks :
            /\ t \in DOMAIN tasks'
            /\ tasks[t].is_deleted = 1 =>
                  /\ tasks'[t].is_deleted = 1
                  /\ get_task_by_id(t) = None
                  /\ t \notin get_all_tasks(FALSE)]_vars

\* a task with file rows has been deleted and another task is still listed
C24_Witness ==
    \E c \in EventLoop, t \in DOMAIN tasks :
        /\ callers[c].op = "delete" /\ callers[c].task_id = t
        /\ tasks[t].is_deleted = 1
        /\ CountWhere(t, FileIds) > 0
        /\ get_all_tasks(FALSE) # {}
        /\ get_all_tasks(TRUE) = get_all_tasks(FALSE) \cup {t}

\* the rows of batch_files stored for task t
RowsOf(t) == {i \in FileIds : files[i].task_id = t}

\* C25: after any sequence of add_files_to_task calls the task's total_files is
\* the number of file rows stored for it, every file inserted is pending in
\* status, stage1_status and stage2_status, and a call adds its rows whatever
\* rows the task already has
C25_AddFilesCounts ==
    [][/\ \A t \in DOMAIN tasks : tasks[t].total_files = Cardinality(RowsOf(t))
       /\ \A t \in DOMAIN tasks' : tasks'[t].total_files = Cardinality(RowsOf(t)')
       /\ \A c \in EventLoop :
            Served(c, "add_files") =>
                /\ Len(files') > Len(files)
                /\ SubSeq(files', 1, Len(files)) = files
                /\ \A i \in Len(files) + 1..Len(files') :
                      /\ files'[i].task_id = callers'[c].task_id
                      /\ files'[i].status = "pending"
                      /\ files'[i].stage1_status = "pending"
                      /\ files'[i].stage2_status = "pending"]_vars

\* a list of MaxList files has been added twice to the same task
C25_Witness ==
    \E c \in EventLoop, t \in DOMAIN tasks :
        /\ callers[c].op = "add_files" /\ callers[c].task_id = t
        /\ Cardinality(RowsOf(t)) = 2 * MaxList
        /\ tasks[t].total_files = 2 * MaxList

\* C26: creating a task fails when the source path does not exist or is not a
\* directory, and a creation request that returns failure leaves no task row in
\* the store
C26_RejectedLeavesNoRow ==
    [][\A c \in EventLoop :
        /\ \A p \in SourcePaths :
              CreateTaskRequest(c, p) /\ ~(path_exists(p) /\ path_isdir(p)) =>
                  callers'[c].outcome # "ok"
        /\ Served(c, "create") /\ callers'[c].outcome # "ok" =>
              tasks' = tasks /\ files' = files]_vars

\* =========================================================================
\* clip_service.py: match_pdf_page
\* =========================================================================

MaxPages == 7        \* pages of the PDF
MaxTopN == 2         \* top_n_for_void_check

top5 == 5            \* candidates[:5], remaining_candidates[:5]

\* similarities and thresholds, in hundredths
PosScores == {10, 40}
NegScores == {0, 30}
PosThresholds == {10, 40}
NegThresholds == {-10, 0, 30}

\* what check_page_voided can come to: a void keyword found, none found, or
\* the OCR call failed
VoidChecks == {"voided", "not_voided", "failed"}

\* a verdict that takes a failed check for a flagged page
is_voided_unless_clear(check) == check # "not_voided"

\* check_page_voided: (is_voided, info)[0]
is_voided(check) == check = "voided"

\* the 0-based indexes of enumerate(pages)
PageIndexes == {k - 1 : k \in 1..Len(clip.pages)}

\* pos_similarity = compute_image_similarity(page_image, positive_images, ...)
positive_similarity(idx) == clip.pages[idx + 1].pos

\* neg_similarity = 0; if negative_images: neg_similarity = compute_image_similarity(...)
negative_similarity(idx) ==
    IF clip.negative_images THEN clip.pages[idx + 1].neg ELSE 0

\* a candidate test with a strict comparison on the positive side
is_candidate_strict(idx, pt, nt) ==
    positive_similarity(idx) > pt /\ negative_similarity(idx) <= nt

\* if pos_similarity >= positive_threshold and neg_similarity <= negative_threshold
is_candidate(idx, pt, nt) ==
    positive_similarity(idx) >= pt /\ negative_similarity(idx) <= nt

\* the candidates list, in page order, under the given thresholds
candidates_under(pt, nt) ==
    SelectSeq([k \in 1..Len(clip.pages) |-> k - 1],
              LAMBDA idx: is_candidate(idx, pt, nt))

candidates == candidates_under(clip.positive_threshold, clip.negative_threshold)

\* the place of c[j] after c.sort(key=positive_similarity, reverse=True): the
\* sort is stable, equal keys keep their order
SortedPlace(c, j) ==
    1 + Cardinality({m \in 1..Len(c) :
            \/ positive_similarity(c[m]) > positive_similarity(c[j])
            \/ positive_similarity(c[m]) = positive_similarity(c[j]) /\ m < j})

\* candidates.sort(key=lambda x: x["positive_similarity"], reverse=True)
sorted_candidates ==
    LET c == candidates IN
    [k \in 1..Len(c) |-> c[CHOOSE j \in 1..Len(c) : SortedPlace(c, j) = k]]

\* a selection that looks at every candidate of the list
min_negative(s) ==
    s[CHOOSE j \in 1..Len(s) :
        \A m \in 1..Len(s) :
            /\ negative_similarity(s[j]) <= negative_similarity(s[m])
            /\ m < j => negative_similarity(s[m]) > negative_similarity(s[j])]

\* min(s[:5], key=lambda x: x["negative_similarity"]): the first minimum
min_negative_of_top5(s) == min_negative(Limit(s, top5))

\* a loop bound that ignores top_n_for_void_check
candidate_count == Len(candidates)

\* check_count = min(top_n_for_void_check, len(candidates))
check_count == Min(clip.top_n_for_void_check, Len(candidates))

\* a remainder that is the whole sorted list
all_candidates == sorted_candidates

\* remaining_candidates = candidates[check_count:]
remaining_candidates ==
    SubSeq(sorted_candidates, check_count + 1, Len(candidates))

\* PageMatchResponse(success=False, error=..., voided_pages_checked=...)
Failure(error, voided) ==
    [success |-> FALSE, matched_page_number |-> NULL, matching_score |-> NULL,
     matched_page_base64 |-> NULL, voided_pages_checked |-> voided, error |-> error,
     error_values |-> << >>]

\* best_page_image.save(buffered, format="PNG"); base64.b64encode(...)
page_base64(idx) == <<"png", idx>>

\* a response that reports the internal index of the page
SuccessInternal(best, voided) ==
    [success |-> TRUE, matched_page_number |-> best,
     matching_score |-> positive_similarity(best),
     matched_page_base64 |-> page_base64(best),
     voided_pages_checked |-> IF voided = << >> THEN NULL ELSE voided,
     error |-> NULL, error_values |-> << >>]

\* PageMatchResponse(success=True, matched_page_number=best_page_index + 1, ...)
Success(best, voided) ==
    [success |-> TRUE, matched_page_number |-> best + 1,
     matching_score |-> positive_similarity(best),
     matched_page_base64 |-> page_base64(best),
     voided_pages_checked |-> IF voided = << >> THEN NULL ELSE voided,
     error |-> NULL, error_values |-> << >>]

\* the answer leaves the handler; checked holds the calls of check_page_voided
\* made for the request, in order, each with the page and what it returned
Respond(response, i, checked, voided) ==
    clip' = [clip EXCEPT !.pc = "responded", !.response = response, !.i = i,
                         !.checked = checked, !.voided_pages_info = voided]

\* the lowest and the highest of a non-empty set of scores
MinOf(S) == CHOOSE x \in S : \A y \in S : x <= y
MaxOf(S) == CHOOSE x \in S : \A y \in S : x >= y

\* max((s["positive_similarity"] for s in all_scores), default=0)
max_pos ==
    IF PageIndexes = {} THEN 0
    ELSE MaxOf({positive_similarity(idx) : idx \in PageIndexes})

\* qualified_pos_pages = [s for s in all_scores if s["positive_similarity"] >= positive_threshold]
qualified_pos_pages ==
    {idx \in PageIndexes : positive_similarity(idx) >= clip.positive_threshold}

\* a minimum taken over every page of the PDF
min_neg_of_all_pages ==
    MinOf({negative_similarity(idx) : idx \in PageIndexes})

\* min((s["negative_similarity"] for s in qualified_pos_pages))
min_neg_in_qualified ==
    MinOf({negative_similarity(idx) : idx \in qualified_pos_pages})

\* the failure of a request without candidates: error is the message, and
\* error_values the numbers the message is formatted with
no_candidate_failure ==
    IF qualified_pos_pages # {}
    THEN [Failure("negative_threshold_not_met", NULL) EXCEPT
             !.error_values = << Cardinality(qualified_pos_pages),
                                 clip.positive_threshold, min_neg_in_qualified,
                                 clip.negative_threshold >>]
    ELSE [Failure("positive_threshold_not_met", NULL) EXCEPT
             !.error_values = << max_pos, clip.positive_threshold >>]

\* match_pdf_page up to the void checks: scores, candidates, sort, and the
\* answer when no void check is to be made
MatchPage ==
    /\ clip.pc = "received"
    /\ IF candidates = << >>
       THEN Respond(no_candidate_failure, 0, << >>, << >>)
       ELSE IF clip.skip_voided
       THEN clip' = [clip EXCEPT !.pc = "void_check"]
       ELSE Respond(Success(min_negative_of_top5(sorted_candidates), << >>),
                    0, << >>, << >>)
    /\ UNCHANGED <<tasks, files, processing_tasks, task_control, workers, callers,
                   events, hist>>

\* one round of `for i in range(check_count)`, and what follows the loop when
\* this round ends it
VoidCheck ==
    /\ clip.pc = "void_check"
    /\ \E check \in VoidChecks :
          LET candidate == sorted_candidates[clip.i + 1]
              checked == Append(clip.checked, [page |-> candidate + 1,
                                               check |-> check,
                                               is_voided |-> is_voided(check)])
              voided == Append(clip.voided_pages_info, candidate + 1)
          IN IF ~is_voided(check)
             THEN Respond(Success(candidate, clip.voided_pages_info),
                          clip.i + 1, checked, clip.voided_pages_info)
             ELSE IF clip.i + 1 < check_count
             THEN clip' = [clip EXCEPT !.i = @ + 1, !.checked = checked,
                                       !.voided_pages_info = voided]
             ELSE IF Len(candidates) > check_count
             THEN Respond(Success(min_negative_of_top5(remaining_candidates), voided),
                          clip.i + 1, checked, voided)
             ELSE Respond(Failure("all_candidates_voided", voided),
                          clip.i + 1, checked, voided)
    /\ UNCHANGED <<tasks, files, processing_tasks, task_control, workers, callers,
                   events, hist>>

\* a request as match_pdf_page receives it: the similarities of the pages of the
\* PDF and the form fields
Request(pages, negs, pt, nt, skip, n) ==
    [pc |-> "received", pages |-> pages, negative_images |-> negs,
     positive_threshold |-> pt, negative_threshold |-> nt,
     skip_voided |-> skip, top_n_for_void_check |-> n,
     i |-> 0, checked |-> << >>, voided_pages_info |-> << >>, response |-> NULL,
     delivered |-> FALSE]

\* a PDF of three pages scoring 0.10, 0.40 and 0.05 against the positives, no
\* negative references, thresholds 0.25 / 0.30
ExampleRequest ==
    Request(<< [pos |-> 10, neg |-> 0], [pos |-> 40, neg |-> 0],
               [pos |-> 5, neg |-> 0] >>, FALSE, 25, 30, FALSE, 1)

\* process_file_stage1 sent the PDF of a pending file of a running stage-1 task
\* and the request has arrived at the matching service; without negative references
\* no negative similarity is computed, and without skip_voided
\* top_n_for_void_check is left at one value
InitMatcher ==
    /\ tasks = [t \in TaskIds |-> [NewTaskRow(1) EXCEPT !.status = "running",
                                                        !.stage = 1]]
    /\ files = << NewFileRow("t1") >>
    /\ processing_tasks = << >>
    /\ task_control = << >>
    /\ workers = [w \in Workers |-> FreeWorker]
    /\ callers = [c \in RequestThreads |-> IdleCaller]
    /\ events = 0
    /\ hist = NoHistory
    /\ \/ \E negs \in BOOLEAN, skip \in BOOLEAN, len \in 0..MaxPages :
             \E pages \in [1..len -> [pos : PosScores,
                                      neg : IF negs THEN NegScores ELSE {0}]],
                n \in IF skip THEN 1..MaxTopN ELSE {1},
                pt \in PosThresholds, nt \in NegThresholds :
                   clip = Request(pages, negs, pt, nt, skip, n)
       \/ clip = ExampleRequest

\* a result that passes a failed match for a match
stage1_result_trusting(delivered, response) ==
    [success |-> TRUE,
     matched_page_number |-> response.matched_page_number,
     matched_page_base64 |-> response.matched_page_base64,
     matching_score |-> response.matching_score]

\* what process_file_stage1 returns for a response of /match-page
stage1_result(delivered, response) ==
    IF ~delivered THEN [success |-> FALSE, error |-> "clip_error"]
    ELSE IF ~response.success THEN [success |-> FALSE, error |-> response.error]
    ELSE [success |-> TRUE,
          matched_page_number |-> response.matched_page_number,
          matched_page_base64 |-> response.matched_page_base64,
          matching_score |-> response.matching_score]

\* process_file_stage1 gets the response (or the call fails: a status other
\* than 200, an exception) and the worker writes the file's stage-1 result
ProcessFileStage1 ==
    /\ clip.pc = "responded"
    /\ \E delivered \in BOOLEAN :
          LET result == stage1_result(delivered, clip.response) IN
          /\ files' = WriteStage1(1, result.success, result,
                                  IF result.success THEN NULL ELSE result.error)
          /\ clip' = [clip EXCEPT !.pc = "recorded", !.delivered = delivered]
    /\ UNCHANGED <<tasks, processing_tasks, task_control, workers, callers,
                   events, hist>>

NextMatcher == MatchPage \/ VoidCheck \/ ProcessFileStage1

SpecMatcher == InitMatcher /\ [][NextMatcher]_vars

\* C27: a page is a candidate if and only if its posScore >= positiveThreshold
\* and its negScore <= negativeThreshold (negScore is 0 with no negative
\* references); for the same pages, raising positiveThreshold never increases
\* the number of candidates and raising negativeThreshold never decreases it
C27_CandidateSet ==
    clip.pc # "idle" =>
        LET c == candidates
            pt == clip.positive_threshold
            nt == clip.negative_threshold
        IN
        /\ \A idx \in PageIndexes :
              (\E k \in 1..Len(c) : c[k] = idx) <=>
                  /\ clip.pages[idx + 1].pos >= pt
                  /\ (IF clip.negative_images THEN clip.pages[idx + 1].neg ELSE 0) <= nt
        /\ \A higher \in {x \in PosThresholds : x > pt} :
              Len(candidates_under(higher, nt)) <= Len(c)
        /\ \A higher \in {x \in NegThresholds : x > nt} :
              Len(candidates_under(pt, higher)) >= Len(c)

\* the matcher has answered a request in which a page sits exactly on the
\* positive threshold, one page misses it and one page is above the negative one
C27_Witness ==
    /\ clip.pc = "responded"
    /\ clip.negative_images
    /\ \E idx \in PageIndexes :
          /\ positive_similarity(idx) = clip.positive_threshold
          /\ is_candidate(idx, clip.positive_threshold, clip.negative_threshold)
    /\ \E idx \in PageIndexes : positive_similarity(idx) < clip.positive_threshold
    /\ \E idx \in PageIndexes : /\ positive_similarity(idx) >= clip.positive_threshold
                                /\ negative_similarity(idx) > clip.negative_threshold

\* the request has been answered with a page
Matched == clip.pc = "responded" /\ clip.response.success

\* the place in the sorted candidates of the page the response names
PlaceOfMatch(s) ==
    CHOOSE k \in 1..Len(s) : s[k] + 1 = clip.response.matched_page_number

\* s holds the candidates, each once, by descending positive similarity
SortedDescending(s) ==
    /\ Len(s) = Len(candidates)
    /\ \A j \in 1..Len(candidates) : \E k \in 1..Len(s) : s[k] = candidates[j]
    /\ \A a, b \in 1..Len(s) :
          a < b => positive_similarity(s[a]) >= positive_similarity(s[b])

\* C28: with skip_voided disabled the matched page is the one with the lowest
\* negScore among the 5 candidates with the highest posScore, the candidates
\* taken by descending posScore; of several with that negScore the first in
\* that order wins, and a lower negScore wins inside the 5 over a higher posScore
C28_LowestNegativeOfTop5 ==
    Matched /\ ~clip.skip_voided =>
        LET s == sorted_candidates
            last == Min(top5, Len(s))
        IN
        /\ SortedDescending(s)
        /\ \E k \in 1..last :
              /\ s[k] + 1 = clip.response.matched_page_number
              /\ \A m \in 1..last :
                    /\ negative_similarity(s[k]) <= negative_similarity(s[m])
                    /\ m < k => negative_similarity(s[m]) > negative_similarity(s[k])

\* more than 5 candidates, and the matched page is not the one with the highest
\* posScore: it has a lower posScore and a lower negScore than the first of the
\* 5, and shares its negScore with a later one of the 5
C28_Witness ==
    /\ Matched /\ ~clip.skip_voided
    /\ Len(candidates) > top5
    /\ LET s == sorted_candidates
           k == PlaceOfMatch(s)
       IN /\ positive_similarity(s[k]) < positive_similarity(s[1])
          /\ negative_similarity(s[k]) < negative_similarity(s[1])
          /\ \E m \in (k + 1)..top5 :
                negative_similarity(s[m]) = negative_similarity(s[k])

\* the pages handed to check_page_voided so far
CheckedPages == [m \in 1..Len(clip.checked) |-> clip.checked[m].page]

\* C29: with skip_voided enabled the matcher void-checks the top
\* min(N, number of candidates) candidates in descending posScore order and
\* selects the first one not flagged; every candidate checked before the
\* selected one, and only those, is in voided_pages_checked, and no candidate
\* after the selected one is void-checked
C29_FirstNotVoided ==
    clip.pc = "responded" /\ clip.skip_voided /\ candidates # << >> =>
        LET s == sorted_candidates
            n == Min(clip.top_n_for_void_check, Len(candidates))
            ch == clip.checked
        IN
        /\ Len(ch) <= n
        /\ \A m \in 1..Len(ch) : ch[m].page = s[m] + 1
        /\ \A m \in 1..(Len(ch) - 1) : ch[m].is_voided
        /\ IF \E m \in 1..Len(ch) : ~ch[m].is_voided
           THEN /\ clip.response.success
                /\ clip.response.matched_page_number = ch[Len(ch)].page
                /\ clip.voided_pages_info = SubSeq(CheckedPages, 1, Len(ch) - 1)
                /\ clip.response.voided_pages_checked =
                       IF Len(ch) = 1 THEN NULL ELSE clip.voided_pages_info
           ELSE Len(ch) = n

\* the second of the checked candidates was selected: the first was flagged
\* and reported, a third candidate and a higher N were left unchecked
C29_Witness ==
    /\ Matched /\ clip.skip_voided
    /\ Len(candidates) > 2
    /\ Len(clip.checked) = 2
    /\ clip.checked[1].is_voided /\ ~clip.checked[2].is_voided
    /\ clip.response.matched_page_number = sorted_candidates[2] + 1
    /\ clip.response.voided_pages_checked = << sorted_candidates[1] + 1 >>
    /\ positive_similarity(sorted_candidates[1]) > positive_similarity(sorted_candidates[2])

\* every void check of the request came back flagged
AllCheckedVoided ==
    /\ clip.pc = "responded" /\ clip.skip_voided
    /\ clip.checked # << >>
    /\ \A m \in 1..Len(clip.checked) : clip.checked[m].is_voided

\* C30: when all of the top-N checked candidates are voided and there is a
\* candidate beyond the top N, the matched page is taken from the remainder
\* (the lowest negScore among the first 5 of the remainder), it is never one
\* of the voided pages, and the voided list has exactly N entries
C30_FallbackToRemainder ==
    AllCheckedVoided /\ Len(candidates) > clip.top_n_for_void_check =>
        LET s == sorted_candidates
            N == clip.top_n_for_void_check
            last == Min(N + top5, Len(s))
            v == clip.voided_pages_info
        IN
        /\ clip.response.success
        /\ Len(v) = N
        /\ \A m \in 1..N : v[m] = s[m] + 1
        /\ clip.response.voided_pages_checked = v
        /\ \A m \in 1..Len(v) : v[m] # clip.response.matched_page_number
        /\ \E k \in (N + 1)..last :
              /\ s[k] + 1 = clip.response.matched_page_number
              /\ \A m \in (N + 1)..last :
                    /\ negative_similarity(s[k]) <= negative_similarity(s[m])
                    /\ m < k => negative_similarity(s[m]) > negative_similarity(s[k])

\* the top candidate was voided and six remain: the matched page is one of the
\* first 5 of the remainder although the sixth has a lower negScore
C30_Witness ==
    /\ AllCheckedVoided /\ Matched
    /\ Len(candidates) > clip.top_n_for_void_check + top5
    /\ LET s == sorted_candidates
       IN negative_similarity(s[Len(s)]) < negative_similarity(s[PlaceOfMatch(s)])

\* the matcher has answered the request (and the worker may have recorded it)
Answered == clip.pc \in {"responded", "recorded"}

\* every candidate was void-checked and every check came back flagged
AllCandidatesVoided ==
    /\ Answered /\ clip.skip_voided
    /\ candidates # << >>
    /\ Len(candidates) <= clip.top_n_for_void_check
    /\ Len(clip.checked) = Len(candidates)
    /\ \A m \in 1..Len(clip.checked) : clip.checked[m].is_voided

\* C31: with skip_voided enabled, if every candidate is among the checked
\* top N and all of them are flagged voided, the matcher reports failure, with
\* no matched page and the complete voided-page report attached, and the batch
\* worker records the file's stage 1 as failed
C31_AllVoidedFails ==
    AllCandidatesVoided =>
        LET s == sorted_candidates IN
        /\ ~clip.response.success
        /\ clip.response.matched_page_number = NULL
        /\ clip.response.voided_pages_checked = [m \in 1..Len(s) |-> s[m] + 1]
        /\ clip.pc = "recorded" =>
              /\ files[1].stage1_status = "failed"
              /\ files[1].matched_page_number = NULL
              /\ files[1].error_message # NULL

\* two candidates, both checked and flagged, and the worker has recorded the
\* matcher's answer
C31_Witness ==
    /\ AllCandidatesVoided
    /\ Len(candidates) = 2
    /\ clip.pc = "recorded" /\ clip.delivered
    /\ files[1].stage1_status = "failed"
    /\ files[1].error_message = "all_candidates_voided"

\* C32: when no page is a candidate the matcher reports failure with one of
\* two diagnostics: "no page reached the positive threshold" exactly when no
\* page has posScore >= positiveThreshold, and otherwise "pages reached the
\* positive threshold but none cleared the negative threshold", which carries
\* the minimum negScore among the pages that reached the positive threshold
C32_TwoDiagnostics ==
    LET reached == {k \in 1..Len(clip.pages) :
                       clip.pages[k].pos >= clip.positive_threshold}
        neg(k) == IF clip.negative_images THEN clip.pages[k].neg ELSE 0
    IN
    Answered /\ (\A k \in reached : neg(k) > clip.negative_threshold) =>
        /\ ~clip.response.success
        /\ clip.response.matched_page_number = NULL
        /\ clip.response.error \in {"positive_threshold_not_met",
                                    "negative_threshold_not_met"}
        /\ clip.response.error = "positive_threshold_not_met" <=> reached = {}
        /\ clip.response.error = "negative_threshold_not_met" =>
              /\ \E k \in reached : clip.response.error_values[3] = neg(k)
              /\ \A k \in reached : clip.response.error_values[3] <= neg(k)

\* a failure whose diagnostic carries the lower negScore of two pages that
\* reached the positive threshold, in a PDF with a page that did not reach it
C32_Witness ==
    /\ Answered
    /\ clip.response.error = "negative_threshold_not_met"
    /\ \E a, b \in qualified_pos_pages :
          /\ negative_similarity(a) < negative_similarity(b)
          /\ clip.response.error_values[3] = negative_similarity(a)
    /\ \E idx \in PageIndexes : idx \notin qualified_pos_pages

\* the request of the example
IsExample ==
    /\ clip.pc # "idle"
    /\ clip.pages = ExampleRequest.pages
    /\ ~clip.negative_images
    /\ clip.positive_threshold = 25 /\ clip.negative_threshold = 30

\* C33: on success the matcher reports the winner's page as its 0-based
\* internal index plus 1 and the winner's posScore as the matching score; with
\* thresholds 0.25/0.30, no negative references and posScores
\* [0.10, 0.40, 0.05] there is exactly one candidate (index 1) and the result
\* is page 2 with score 0.40
C33_PageNumberAndScore ==
    /\ Answered /\ clip.response.success =>
          LET c == candidates IN
          \E k \in 1..Len(c) :
              /\ clip.response.matched_page_number = c[k] + 1
              /\ clip.response.matching_score = clip.pages[c[k] + 1].pos
    /\ IsExample => candidates = << 1 >>
    /\ IsExample /\ Answered =>
          /\ clip.response.success
          /\ clip.response.matched_page_number = 2
          /\ clip.response.matching_score = 40

\* the request of the example has been answered with page 2
C33_Witness ==
    /\ IsExample /\ Matched
    /\ clip.response.matched_page_number = 2
    /\ clip.response.matching_score = 40

\* C39: with skip_voided enabled, a candidate whose void check fails (OCR
\* service error, non-success response or exception) is treated as not voided:
\* it is selected as the match if it is the first such candidate in descending
\* posScore order, and it is not added to voided_pages_checked
C39_FailedCheckNotVoided ==
    Answered /\ clip.skip_voided =>
        LET s == sorted_candidates
            ch == clip.checked
            v == clip.voided_pages_info
        IN \A m \in 1..Len(ch) :
              ch[m].check = "failed" =>
                  /\ ch[m].page = s[m] + 1
                  /\ \A j \in 1..(m - 1) : ch[j].check = "voided"
                  /\ m = Len(ch)
                  /\ clip.response.success
                  /\ clip.response.matched_page_number = ch[m].page
                  /\ \A j \in 1..Len(v) : v[j] # ch[m].page
                  /\ clip.response.voided_pages_checked = IF v = << >> THEN NULL ELSE v

\* the first candidate was flagged, the check of the second failed and the
\* second is the match; only the first is in the report
C39_Witness ==
    /\ Matched /\ clip.skip_voided
    /\ Len(clip.checked) = 2
    /\ clip.checked[1].check = "voided" /\ clip.checked[2].check = "failed"
    /\ clip.response.matched_page_number = clip.checked[2].page
    /\ clip.response.voided_pages_checked = << clip.checked[1].page >>

\* =========================================================================
\* batch_processor.py: two tasks
\* =========================================================================

\* a second task, B, with its own worker thread; the controller calls and the
\* worker steps of the model are those of task A = "t1"
OtherTask == "t2"
OtherThread == 0

\* a row of B: stage 1 completed, stage 2 completed or still pending
OtherFileRow(stage2_done) ==
    IF stage2_done
    THEN [Stage1DoneRow(OtherTask, TRUE) EXCEPT !.stage2_status = "completed",
                                                !.status = "completed",
                                                !.ocr_result = "visual_info",
                                                !.extracted_keywords = "chat_res"]
    ELSE Stage1DoneRow(OtherTask, TRUE)

\* A is created or has completed stage 1; B is running its stage 2, paused, and
\* its rows lie before and after those of A in batch_files
InitTwoTasks ==
    /\ \E done \in BOOLEAN, oks \in [1..NumFiles -> BOOLEAN] :
          /\ tasks = [t \in TaskIds \cup {OtherTask} |->
                        IF t = OtherTask
                        THEN [NewTaskRow(2) EXCEPT !.status = "running", !.stage = 2,
                                                   !.progress = 50,
                                                   !.processed_files = 1]
                        ELSE IF done
                        THEN [NewTaskRow(NumFiles) EXCEPT !.status = "stage1_completed",
                                                          !.stage = 1]
                        ELSE NewTaskRow(NumFiles)]
          /\ files = << OtherFileRow(TRUE) >>
                     \o [i \in 1..NumFiles |->
                           IF done THEN Stage1DoneRow("t1", oks[i]) ELSE NewFileRow("t1")]
                     \o << OtherFileRow(FALSE) >>
          /\ ~done => \A i \in 1..NumFiles : oks[i]
    /\ processing_tasks = [t \in {OtherTask} |-> OtherThread]
    /\ task_control = [t \in {OtherTask} |-> [pause |-> TRUE, stop |-> FALSE]]
    /\ workers = [w \in Workers |-> FreeWorker]
    /\ callers = [c \in RequestThreads |-> IdleCaller]
    /\ events = 0
    /\ hist = NoHistory
    /\ clip = NoRequest

SpecTwoTasks == InitTwoTasks /\ [][NextLifetime]_vars

\* the rows of task t in batch_files, with their ids
FileRowsOf(t) == {<<i, files[i]>> : i \in {j \in 1..Len(files) : files[j].task_id = t}}

\* C34: workers of different tasks run independently: pause_task, resume_task,
\* stop_task, restart and resume-from-failure on task A, and every step of A's
\* worker, leave task B's control flags, registry entry, task row and file
\* rows unchanged
C34_OtherTaskUntouched ==
    [][/\ OtherTask \in DOMAIN task_control'
       /\ task_control'[OtherTask] = task_control[OtherTask]
       /\ OtherTask \in DOMAIN processing_tasks'
       /\ processing_tasks'[OtherTask] = processing_tasks[OtherTask]
       /\ OtherTask \in DOMAIN tasks'
       /\ tasks'[OtherTask] = tasks[OtherTask]
       /\ FileRowsOf(OtherTask)' = FileRowsOf(OtherTask)]_vars

\* a restart of A has stopped A's running worker, reset A's rows and started
\* a new worker, while B is registered with its flags and has its two rows as
\* they were
C34_Witness ==
    /\ callers["loop"].op = "restart" /\ callers["loop"].outcome = "ok"
    /\ hist.stop_sent # {}
    /\ "t1" \in DOMAIN processing_tasks
    /\ tasks["t1"].status = "running"
    /\ processing_tasks[OtherTask] = OtherThread
    /\ task_control[OtherTask].pause
    /\ FileRowsOf(OtherTask) = {<<1, OtherFileRow(TRUE)>>,
                                <<NumFiles + 2, OtherFileRow(FALSE)>>}

\* the thread registered for t is running: it has not reached its finally block
RegisteredAndRunning(t) ==
    /\ t \in DOMAIN processing_tasks
    /\ workers[processing_tasks[t]].pc \notin
           {"free", "cleanup_registry", "cleanup_control"}

\* C35: whenever a worker thread is registered and running for a task, the
\* task's control-flag entry exists, so that pause_task and stop_task on a
\* running task are not rejected as "not processing" and are observed by that
\* worker; the exit cleanup of a previous worker of the task never deletes the
\* control flags registered for a newly started worker
C35_ControlEntryWhileRegistered ==
    \A t \in TaskIds : RegisteredAndRunning(t) => t \in DOMAIN task_control

\* the last call of request thread c is a restart that has run its UPDATE
ResetDone(c) ==
    /\ callers[c].op = "restart"
    /\ \/ callers[c].pc \in {"start_check", "start_control", "start_thread"}
       \/ callers[c].pc = "idle" /\ callers[c].outcome \in {"ok", "already_running"}

\* C36: after restart_task_stage1 / restart_task_stage2 has reset the file
\* rows, no result computed by the worker that was running before the restart
\* is written to any file: that worker has exited, or writes nothing more,
\* before the reset takes place, even when its in-flight collaborator call
\* outlasts the fixed wait of the restart
C36_NoWriteAfterReset ==
    [][\A w \in Workers, c \in EventLoop :
        /\ w \in hist.stop_sent
        /\ ResetDone(c) /\ callers[c].task_id = workers[w].task_id
        => ~WritesResult(w)]_vars

\* =========================================================================
\* batch_processor.py: a worker left to run
\* =========================================================================

\* the steps of a worker when no flag is set and no store call fails
run_to_completion(w) ==
    \/ WorkerBegin(w)
    \/ WorkerCheckControl(w)
    \/ WorkerFetch(w)
    \/ WorkerWriteFinished(w)
    \/ WorkerFileCheck(w)
    \/ WorkerProcessFile(w)
    \/ WorkerProgress(w)
    \/ WorkerCleanupRegistry(w)
    \/ WorkerCleanupControl(w)

\* stages are started, and nothing else is called
NextRun ==
    \/ \E c \in EventLoop :
          \/ \E t \in TaskIds, stage \in {1, 2} : start_task(c, t, stage)
          \/ StartControl(c)
          \/ StartThread(c)
    \/ \E w \in Workers : run_to_completion(w)

\* every started thread is scheduled again and again, and the collaborator
\* call it is waiting for returns, with a result or with an error
SpecRunFair ==
    /\ Init
    /\ [][NextRun]_vars
    /\ \A w \in Workers : WF_vars(run_to_completion(w))

\* worker w has been started for the stage and file id is one of the files
\* pending for it
StartedOn(w, stage, id) ==
    /\ workers[w].pc = "begin" /\ workers[w].stage = stage
    /\ files[id].task_id = workers[w].task_id
    /\ StageStatus(files[id], stage) = "pending" /\ Eligible(files[id], stage)

InitEmptyTask ==
    /\ tasks = [t \in TaskIds |-> NewTaskRow(0)]
    /\ files = << >>

InitAnyTask == (InitCreated \/ InitStage1Completed \/ InitEmptyTask) /\ InitMemory

SpecAnyTask == InitAnyTask /\ [][NextLifetime]_vars

\* task t has no file whose status for the stage is pending
NothingPending(t, stage) ==
    /\ stage \in {1, 2}
    /\ \A i \in FileIds :
          files[i].task_id = t => StageStatus(files[i], stage) # "pending"

\* C38: resume_task_from_failure on a failed, stopped or paused task that has
\* no pending file for its current stage ends without launching a worker and
\* without modifying the task row: it never reaches the reset of the status,
\* and the task keeps its failed/stopped/paused status and its error message
C38_NothingPendingNoResume ==
    [][\A c \in EventLoop :
        /\ ResumeFromFailureSteps(c)
        /\ callers[c].pc \in {"resume_registry", "resume_stats"}
        /\ NothingPending(callers[c].task_id, callers[c].stage)
        => /\ callers'[c].pc # "resume_reset"
           /\ callers'[c].pc = "idle" =>
                 callers'[c].outcome \in {"nothing_pending", "already_running"}
           /\ UNCHANGED <<tasks, files, processing_tasks, task_control, workers>>]_vars

====
